---- MODULE Spec2Model ----
(***************************************************************************)
(* lazyaws: the bubbletea state machine of src/main.go.                    *)
(*                                                                         *)
(* The program state is the value `model` threaded through Update, the     *)
(* heap object *config.Config every copy of the model points to, the       *)
(* commands (tea.Cmd) Update has returned and the runtime runs on their    *)
(* own goroutines, and the messages those goroutines have produced and not *)
(* yet handed to Update.  Update handles one message at a time.            *)
(***************************************************************************)
EXTENDS Integers, Sequences, FiniteSets, TLC

VARIABLES
    m,          \* the model value held by the bubbletea runtime
    config,     \* the *config.Config all copies of the model share
    cmds,       \* commands returned by Update whose goroutine has not run yet
    msgs,       \* results of finished initAWSClient commands, not yet handled
    status,     \* "running", "quit" (tea.Quit) or "panicked" (nil dereference)
    nextId,     \* the id the next command issued by a key gets
    edits,      \* number of times filter editing has been entered
    keylog,     \* history: keys the text input consumed since the latest f
    entry,      \* history: filter and input buffer when f was last handled
    expected,   \* history: the completions folded in arrival order
    tabs,       \* history: the screens before the latest presses of PressTab
    view        \* what renderEC2 showed when View was last observed

vars == <<m, config, cmds, msgs, status, nextId, edits, keylog, entry,
          expected, tabs, view>>

----------------------------------------------------------------------------
(* Bounds of the model. *)

\* Commands the keys r and c may issue in one run (startup's is extra).
MaxCmds == 1
\* Editing sessions (key f) in one run.
MaxSessions == 2
\* Length of the instance lists the filter is applied to.
MaxInstances == 2

(* Program constants. *)

\* ti.CharLimit
CharLimit == 20

\* screen: ec2Screen, s3Screen, eksScreen (iota)
ec2Screen == 0
s3Screen == 1
eksScreen == 2

----------------------------------------------------------------------------
(* Values. *)

\* A nil pointer, nil error, nil slice element of the Go program.
Nil == "nil"

\* The regions of the specification's example, and one outside the list.
RegionList == <<"us-east-1", "us-west-2", "eu-west-1">>
Configs ==
    { [Region |-> "us-east-1", Regions |-> RegionList],
      [Region |-> "eu-west-1", Regions |-> RegionList],
      [Region |-> "ap-south-1", Regions |-> RegionList],
      [Region |-> "us-east-1", Regions |-> <<>>] }

\* Errors aws.NewClient and Client.ListInstances may return.
InitErr == "NewClient failed"
ListErr == "ListInstances failed"

\* Instance lists Client.ListInstances may return.
Inst(id, state, tags) == [ID |-> id, State |-> state, Tags |-> tags]
Tag(k, v) == [Key |-> k, Value |-> v]
Results ==
    { <<Inst("i-1", "running", <<Tag("Env", "Prod")>>)>>,
      <<Inst("i-1", "running", <<Tag("Env", "Prod")>>),
        Inst("i-2", "stopped", <<Tag("env", "dev")>>)>> }

\* Terminal sizes a tea.WindowSizeMsg may carry.
Sizes == { <<80, 24>> }

\* The text of the specification's filter example, one rune per key press.
EnvProd == <<"E", "n", "v", "=", "p", "r", "o", "d">>
\* The words the user types into the filter input, rune by rune.
EditWords == { EnvProd, <<"q">> }

\* Texts of tags, states and filters, as sequences of runes.
Env == <<"E", "n", "v">>
EnvLower == <<"e", "n", "v">>
Name == <<"N", "a", "m", "e">>
Prod == <<"P", "r", "o", "d">>
ProdLower == <<"p", "r", "o", "d">>
ProdUpper == <<"P", "R", "O", "D">>
Dev == <<"d", "e", "v">>
AEqB == <<"a", "=", "b">>
Run == <<"r", "u", "n">>
RunUpper == <<"R", "U", "N">>
Running == <<"R", "u", "n", "n", "i", "n", "g">>
RunningLower == <<"r", "u", "n", "n", "i", "n", "g">>
Stopped == <<"s", "t", "o", "p", "p", "e", "d">>
Pending == <<"p", "e", "n", "d", "i", "n", "g">>

\* The instances the filter is applied to: those of the specification's
\* examples, one with two tags of the same key, one whose tag value holds
\* "=", and one whose name tag holds the text of a state.
ProdInst == Inst("i-1", Running, <<Tag(Env, Prod)>>)
DevInst == Inst("i-2", Stopped, <<Tag(EnvLower, Dev)>>)
TwoTagInst == Inst("i-3", RunningLower, <<Tag(Env, Prod), Tag(Env, ProdLower)>>)
EqInst == Inst("i-4", Stopped, <<Tag(Env, AEqB)>>)
NameInst == Inst("i-5", Pending, <<Tag(Name, Run)>>)
FilterInsts == {ProdInst, DevInst, TwoTagInst, EqInst, NameInst}

\* The instance lists of at most n instances.
InstLists(n) == UNION { [1..k -> FilterInsts] : k \in 0..n }

\* The committed filter texts: empty, key=value (the example, other cases of
\* key and value, an empty value, a second "=", "=" alone) and plain texts.
Filters ==
    { <<>>, EnvProd, EnvLower \o <<"=">> \o ProdUpper, Env \o <<"=">> \o Dev,
      Env \o <<"=">>, Env \o <<"=">> \o AEqB, <<"=">>,
      Run, RunUpper, Dev }

\* Keys the user presses while navigating (in Spec, and in SpecEdit, where no
\* load is requested by hand and two of the screens are visited) and while
\* editing the filter.
NavKeys == {"ctrl+c", "q", "1", "2", "3", "c", "tab", "r", "f", "esc"}
EditNavKeys == {"ctrl+c", "q", "1", "2", "f", "esc"}
EditKeys == {"enter", "esc", "ctrl+c"}
\* Keys pressed between the runs of tab presses whose screens are recorded.
TabNavKeys == {"q", "1", "3", "r", "f"}

\* tea.KeyRunes: a key that carries a printable character.
IsRune(k) == k \notin {"ctrl+c", "tab", "enter", "esc", "backspace"}

IsPrefix(s, t) == Len(s) <= Len(t) /\ SubSeq(t, 1, Len(s)) = s

\* The runes among a sequence of keys.
RECURSIVE Runes(_)
Runes(ks) ==
    IF ks = <<>> THEN <<>>
    ELSE IF IsRune(Head(ks)) THEN <<Head(ks)>> \o Runes(Tail(ks))
    ELSE Runes(Tail(ks))

\* The runes the user may type next in an editing session: the next rune of
\* one of the words.
NextRunes(log, words) ==
    { w[Len(Runes(log)) + 1] : w \in { v \in words :
          /\ Len(Runes(log)) < Len(v)
          /\ IsPrefix(Runes(log), v) } }

----------------------------------------------------------------------------
(* Messages (tea.Msg). *)

KeyMsg(k) == [type |-> "key", key |-> k]
WindowSizeMsg(w, h) == [type |-> "resize", Width |-> w, Height |-> h]
\* *aws.Client: the handle is represented by the region it was built for.
ClientMsg(region, id, origin) ==
    [type |-> "client", client |-> region, id |-> id, origin |-> origin]
\* from: the command that produced it, "init" or "list".
instancesLoadedMsg(instances, err, id, origin, from) ==
    [type |-> "loaded", instances |-> instances, err |-> err,
     id |-> id, origin |-> origin, from |-> from]

----------------------------------------------------------------------------
(* textinput.Model *)

\* textinput.New() with the settings of initialModel; the cursor stays at the
\* end of the value because no cursor key is among the keys pressed.
NewTextInput == [value |-> <<>>, focus |-> TRUE]

\* textinput.Model.Update: a rune is inserted unless the value is CharLimit
\* long, backspace deletes the rune before the cursor, and every other
\* message (other keys, *aws.Client, instancesLoadedMsg, resize) is ignored.
TextInputUpdate(ti, msg) ==
    IF ~ti.focus \/ msg.type # "key" THEN ti
    ELSE IF msg.key = "backspace"
         THEN [ti EXCEPT !.value =
                 IF ti.value = <<>> THEN <<>>
                 ELSE SubSeq(ti.value, 1, Len(ti.value) - 1)]
    ELSE IF IsRune(msg.key)
         THEN IF Len(ti.value) < CharLimit
              THEN [ti EXCEPT !.value = Append(ti.value, msg.key)]
              ELSE ti
    ELSE ti

----------------------------------------------------------------------------
(* model *)

initialModel ==
    [currentScreen |-> ec2Screen,
     width         |-> 0,
     height        |-> 0,
     awsClient     |-> Nil,
     ec2Instances  |-> <<>>,
     loading       |-> TRUE,
     err           |-> Nil,
     filterInput   |-> NewTextInput,
     filtering     |-> FALSE,
     filter        |-> <<>>]

\* The load status renderEC2 shows: loading is tested before err.
LoadStatus(mm) ==
    IF mm.loading THEN "Loading"
    ELSE IF mm.err # Nil THEN "Failed"
    ELSE "Ready"

\* What Update returns: the new model, the region it left in the shared
\* config, and the command ("none", "init", "list" or "quit").
Ret(mm, region, cmd) == [m |-> mm, region |-> region, cmd |-> cmd]

\* KeyEnter with the commit forgotten.
KeyEnterNoCommit(mm) == [mm EXCEPT !.filtering = FALSE]

\* case "enter" of the filtering branch.
KeyEnter(mm) ==
    [mm EXCEPT !.filter = mm.filterInput.value, !.filtering = FALSE]

\* KeyEsc committing the buffer as enter does.
KeyEscCommits(mm) ==
    [mm EXCEPT !.filter = mm.filterInput.value, !.filtering = FALSE]

\* case "esc" of the filtering branch.
KeyEsc(mm) == [mm EXCEPT !.filtering = FALSE]

\* UpdateFiltering with the quit keys handled before the text input.
UpdateFilteringQuits(mm, cfg, msg) ==
    IF msg.type = "key" /\ msg.key \in {"ctrl+c", "q"} THEN Ret(mm, cfg.Region, "quit")
    ELSE IF msg.type = "key" /\ msg.key = "enter"
         THEN Ret([mm EXCEPT !.filter = mm.filterInput.value, !.filtering = FALSE],
                  cfg.Region, "none")
    ELSE IF msg.type = "key" /\ msg.key = "esc"
         THEN Ret([mm EXCEPT !.filtering = FALSE], cfg.Region, "none")
    ELSE Ret([mm EXCEPT !.filterInput = TextInputUpdate(mm.filterInput, msg)],
             cfg.Region, "none")

\* The filtering branch: every message while m.filtering.
UpdateFiltering(mm, cfg, msg) ==
    IF msg.type = "key" /\ msg.key = "enter" THEN Ret(KeyEnter(mm), cfg.Region, "none")
    ELSE IF msg.type = "key" /\ msg.key = "esc" THEN Ret(KeyEsc(mm), cfg.Region, "none")
    ELSE Ret([mm EXCEPT !.filterInput = TextInputUpdate(mm.filterInput, msg)],
             cfg.Region, "none")

\* case *aws.Client
OnClient(mm, cfg, msg) ==
    Ret([mm EXCEPT !.awsClient = msg.client], cfg.Region, "list")

\* case instancesLoadedMsg
OnInstancesLoaded(mm, cfg, msg) ==
    Ret([mm EXCEPT !.loading = FALSE,
                   !.err = msg.err,
                   !.ec2Instances = IF msg.err = Nil THEN msg.instances ELSE @],
        cfg.Region, "none")

\* The loop of case "c": the first index of the current region, or 0 (Go's
\* -1; sequences are 1-based here).
IndexOf(regions, region) ==
    IF \E i \in 1..Len(regions) : regions[i] = region
    THEN CHOOSE i \in 1..Len(regions) :
            /\ regions[i] = region
            /\ \A j \in 1..(i - 1) : regions[j] # region
    ELSE 0

\* NextIndex without the wrap-around: the last index stays.
NextIndexNoWrap(regions, currentIndex) ==
    IF currentIndex < Len(regions) THEN currentIndex + 1 ELSE currentIndex

\* nextIndex := (currentIndex + 1) % len(m.config.Regions), 1-based.
NextIndex(regions, currentIndex) == (currentIndex % Len(regions)) + 1

\* case "c"
KeyC(mm, cfg) ==
    LET currentIndex == IndexOf(cfg.Regions, cfg.Region) IN
    IF currentIndex # 0
    THEN Ret([mm EXCEPT !.loading = TRUE],
             cfg.Regions[NextIndex(cfg.Regions, currentIndex)], "init")
    ELSE Ret(mm, cfg.Region, "none")

\* KeyR with the screen test forgotten.
KeyRAnyScreen(mm, cfg) == Ret([mm EXCEPT !.loading = TRUE], cfg.Region, "list")

\* case "r"
KeyR(mm, cfg) ==
    IF mm.currentScreen = ec2Screen
    THEN Ret([mm EXCEPT !.loading = TRUE], cfg.Region, "list")
    ELSE Ret(mm, cfg.Region, "none")

\* KeyF starting every edit from no filter.
KeyFClearsFilter(mm, cfg) ==
    Ret([mm EXCEPT !.filtering = TRUE, !.filterInput.focus = TRUE, !.filter = <<>>],
        cfg.Region, "none")

\* case "f"
KeyF(mm, cfg) ==
    Ret([mm EXCEPT !.filtering = TRUE, !.filterInput.focus = TRUE],
        cfg.Region, "none")

\* KeyTab going through the screens in the opposite order.
KeyTabBackwards(mm, cfg) ==
    Ret([mm EXCEPT !.currentScreen = (mm.currentScreen + 2) % 3], cfg.Region, "none")

\* case "tab"
KeyTab(mm, cfg) ==
    Ret([mm EXCEPT !.currentScreen = (mm.currentScreen + 1) % 3], cfg.Region, "none")

\* case "ctrl+c", "q"
KeyQuit(mm, cfg) == Ret(mm, cfg.Region, "quit")

\* case tea.KeyMsg of the navigating branch.
OnKey(mm, cfg, key) ==
    CASE key \in {"ctrl+c", "q"} -> KeyQuit(mm, cfg)
      [] key = "1" -> Ret([mm EXCEPT !.currentScreen = ec2Screen], cfg.Region, "none")
      [] key = "2" -> Ret([mm EXCEPT !.currentScreen = s3Screen], cfg.Region, "none")
      [] key = "3" -> Ret([mm EXCEPT !.currentScreen = eksScreen], cfg.Region, "none")
      [] key = "c" -> KeyC(mm, cfg)
      [] key = "tab" -> KeyTab(mm, cfg)
      [] key = "r" -> KeyR(mm, cfg)
      [] key = "f" -> KeyF(mm, cfg)
      [] OTHER -> Ret(mm, cfg.Region, "none")

\* case tea.WindowSizeMsg
OnWindowSize(mm, cfg, msg) ==
    Ret([mm EXCEPT !.width = msg.Width, !.height = msg.Height], cfg.Region, "none")

\* model.Update
Update(mm, cfg, msg) ==
    IF mm.filtering THEN UpdateFiltering(mm, cfg, msg)
    ELSE CASE msg.type = "client" -> OnClient(mm, cfg, msg)
           [] msg.type = "loaded" -> OnInstancesLoaded(mm, cfg, msg)
           [] msg.type = "key" -> OnKey(mm, cfg, msg.key)
           [] msg.type = "resize" -> OnWindowSize(mm, cfg, msg)
           [] OTHER -> Ret(mm, cfg.Region, "none")

----------------------------------------------------------------------------
(* strings, over sequences of one-rune strings (ASCII). *)

UpperRunes == <<"A", "B", "C", "D", "E", "F", "G", "H", "I", "J", "K", "L", "M",
                "N", "O", "P", "Q", "R", "S", "T", "U", "V", "W", "X", "Y", "Z">>
LowerRunes == <<"a", "b", "c", "d", "e", "f", "g", "h", "i", "j", "k", "l", "m",
                "n", "o", "p", "q", "r", "s", "t", "u", "v", "w", "x", "y", "z">>

\* unicode.ToLower on one rune.
ToLowerRune(c) ==
    IF \E i \in 1..Len(UpperRunes) : UpperRunes[i] = c
    THEN LowerRunes[CHOOSE i \in 1..Len(UpperRunes) : UpperRunes[i] = c]
    ELSE c

\* strings.ToLower
ToLower(str) == [i \in 1..Len(str) |-> ToLowerRune(str[i])]

\* strings.Contains: substr occurs in str (the empty string occurs in all).
Contains(str, substr) ==
    \E i \in 0..(Len(str) - Len(substr)) :
        SubSeq(str, i + 1, i + Len(substr)) = substr

\* strings.Index for a one-rune separator: the first position, or 0.
Index(str, sep) ==
    IF \E i \in 1..Len(str) : str[i] = sep
    THEN CHOOSE i \in 1..Len(str) :
            /\ str[i] = sep
            /\ \A j \in 1..(i - 1) : str[j] # sep
    ELSE 0

\* strings.SplitN(str, sep, 2) for a str that contains sep: the text before
\* the first sep and everything after it.
SplitN(str, sep) ==
    << SubSeq(str, 1, Index(str, sep) - 1),
       SubSeq(str, Index(str, sep) + 1, Len(str)) >>

----------------------------------------------------------------------------
(* renderEC2: the filter and what is shown. *)

\* TagMatches comparing the key without regard to case, like the value.
TagMatchesKeyFold(tag, tagKey, tagValue) ==
    /\ ToLower(tag.Key) = ToLower(tagKey)
    /\ Contains(ToLower(tag.Value), ToLower(tagValue))

\* The condition of the tag loop.
TagMatches(tag, tagKey, tagValue) ==
    /\ tag.Key = tagKey
    /\ Contains(ToLower(tag.Value), ToLower(tagValue))

\* TagLoop with the break forgotten.
RECURSIVE TagLoopNoBreak(_, _, _, _, _)
TagLoopNoBreak(filteredInstances, inst, tags, tagKey, tagValue) ==
    IF tags = <<>> THEN filteredInstances
    ELSE TagLoopNoBreak(IF TagMatches(Head(tags), tagKey, tagValue)
                        THEN Append(filteredInstances, inst)
                        ELSE filteredInstances,
                        inst, Tail(tags), tagKey, tagValue)

\* for _, tag := range inst.Tags: append inst at the first matching tag and
\* break.
RECURSIVE TagLoop(_, _, _, _, _)
TagLoop(filteredInstances, inst, tags, tagKey, tagValue) ==
    IF tags = <<>> THEN filteredInstances
    ELSE IF TagMatches(Head(tags), tagKey, tagValue)
         THEN Append(filteredInstances, inst)
         ELSE TagLoop(filteredInstances, inst, Tail(tags), tagKey, tagValue)

\* for _, inst := range m.ec2Instances of the tag filter.
RECURSIVE FilterByTag(_, _, _, _)
FilterByTag(filteredInstances, instances, tagKey, tagValue) ==
    IF instances = <<>> THEN filteredInstances
    ELSE FilterByTag(TagLoop(filteredInstances, Head(instances),
                             Head(instances).Tags, tagKey, tagValue),
                     Tail(instances), tagKey, tagValue)

\* StateMatches comparing the state as it is written.
StateMatchesExactCase(inst, filter) == Contains(inst.State, filter)

\* The condition of the state loop.
StateMatches(inst, filter) == Contains(ToLower(inst.State), ToLower(filter))

\* for _, inst := range m.ec2Instances of the state filter.
RECURSIVE FilterByState(_, _, _)
FilterByState(filteredInstances, instances, filter) ==
    IF instances = <<>> THEN filteredInstances
    ELSE FilterByState(IF StateMatches(Head(instances), filter)
                       THEN Append(filteredInstances, Head(instances))
                       ELSE filteredInstances,
                       Tail(instances), filter)

\* FilterInstances with the assignment of the empty-filter branch forgotten:
\* filteredInstances stays nil.
FilterInstancesEmptyShowsNone(filter, instances) ==
    IF filter = <<>> THEN <<>>
    ELSE IF Contains(filter, <<"=">>)
         THEN FilterByTag(<<>>, instances, SplitN(filter, "=")[1],
                          SplitN(filter, "=")[2])
         ELSE FilterByState(<<>>, instances, filter)

\* filteredInstances of renderEC2.
FilterInstances(filter, instances) ==
    IF filter = <<>> THEN instances
    ELSE IF Contains(filter, <<"=">>)
         THEN LET parts == SplitN(filter, "=")
                  tagKey == parts[1]
                  tagValue == parts[2]
              IN FilterByTag(<<>>, instances, tagKey, tagValue)
         ELSE FilterByState(<<>>, instances, filter)

\* renderEC2: the loading line, the error line, "No instances found" or the
\* table of the filtered instances.
renderEC2(mm) ==
    IF mm.loading THEN [status |-> "loading", rows |-> <<>>]
    ELSE IF mm.err # Nil THEN [status |-> "error", rows |-> <<>>]
    ELSE LET filteredInstances == FilterInstances(mm.filter, mm.ec2Instances)
         IN [status |-> IF Len(filteredInstances) = 0 THEN "empty" ELSE "table",
             rows |-> filteredInstances]

----------------------------------------------------------------------------
(* Commands (tea.Cmd): method values bound to the copy of the model Update  *)
(* returned.  initAWSClient reads the region through the shared config      *)
(* pointer when it runs; loadEC2Instances uses the copy's awsClient.        *)

\* issued is history: the region the configuration held when an
\* initAWSClient command was returned (Nil for loadEC2Instances, which does
\* not read the configuration).
Cmd(kind, id, origin, client, issued) ==
    [kind |-> kind, id |-> id, origin |-> origin, client |-> client,
     issued |-> issued]

\* The commands a return value of Update adds, for the message handled.
NewCmds(ret, id, origin) ==
    CASE ret.cmd = "init" -> { Cmd("init", id, origin, Nil, ret.region) }
      [] ret.cmd = "list" -> { Cmd("list", id, origin, ret.m.awsClient, Nil) }
      [] OTHER -> {}

----------------------------------------------------------------------------
(* History. *)

\* The reducer of the specification applied to the completions in the order
\* they arrive: the load status and instance list they determine.
Fold(exp, msg) ==
    IF msg.type = "loaded"
    THEN [loading |-> FALSE,
          err |-> msg.err,
          instances |-> IF msg.err = Nil THEN msg.instances ELSE exp.instances]
    ELSE exp

\* View has not been observed.
NoView == [status |-> "none", rows |-> <<>>]

----------------------------------------------------------------------------
Init ==
    /\ m = initialModel
    /\ config \in Configs
    /\ cmds = { Cmd("init", 1, "startup", Nil, config.Region) }
    /\ msgs = {}
    /\ status = "running"
    /\ nextId = 2
    /\ edits = 0
    /\ keylog = <<>>
    /\ entry = [filter |-> <<>>, value |-> <<>>]
    /\ expected = [loading |-> TRUE, err |-> Nil, instances |-> <<>>]
    /\ tabs = <<>>
    /\ view = NoView

\* The runtime hands msg to Update, stores the model it returns and starts
\* the command it returns; id and origin name that command.
Handle(msg, id, origin) ==
    LET ret == Update(m, config, msg)
        consumed == m.filtering /\ msg.type = "key"
                    /\ (IsRune(msg.key) \/ msg.key = "backspace")
        entered == ~m.filtering /\ ret.m.filtering
    IN
    /\ m' = ret.m
    /\ config' = [config EXCEPT !.Region = ret.region]
    /\ cmds' = (cmds \ {c \in cmds : c.id = id}) \cup NewCmds(ret, id, origin)
    /\ status' = IF ret.cmd = "quit" THEN "quit" ELSE status
    /\ nextId' = IF id = nextId /\ ret.cmd \in {"init", "list"}
                 THEN nextId + 1 ELSE nextId
    /\ edits' = IF entered THEN edits + 1 ELSE edits
    /\ keylog' = IF entered THEN <<>>
                 ELSE IF consumed THEN Append(keylog, msg.key) ELSE keylog
    /\ entry' = IF entered
                THEN [filter |-> m.filter, value |-> m.filterInput.value]
                ELSE entry
    /\ expected' = Fold(expected, msg)

\* Update handles the tea.KeyMsg of key k.
KeyStep(k) ==
    /\ Handle(KeyMsg(k), nextId, k)
    /\ msgs' = msgs

\* The user presses a key: one of navKeys while navigating, one of editKeys
\* or the next rune of one of words while editing the filter.
PressKey(navKeys, editKeys, words) ==
    /\ status = "running"
    /\ \E k \in IF m.filtering THEN editKeys \cup NextRunes(keylog, words)
                ELSE navKeys :
          /\ Update(m, config, KeyMsg(k)).m.filtering /\ ~m.filtering
                => edits < MaxSessions
          /\ Update(m, config, KeyMsg(k)).cmd \in {"init", "list"}
                => nextId - 2 < MaxCmds
          /\ KeyStep(k)
    /\ tabs' = <<>>
    /\ view' = view

\* The user presses tab while navigating; the screen it was pressed on is
\* recorded, for the latest three presses not separated by another key.
PressTab ==
    /\ status = "running"
    /\ ~m.filtering
    /\ KeyStep("tab")
    /\ tabs' = LET all == Append(tabs, m.currentScreen)
               IN IF Len(all) > 3 THEN Tail(all) ELSE all
    /\ view' = view

\* The terminal is resized and Update handles the tea.WindowSizeMsg.
Resize ==
    /\ status = "running"
    /\ \E s \in Sizes :
          /\ Handle(WindowSizeMsg(s[1], s[2]), nextId, "resize")
          /\ msgs' = msgs
    /\ UNCHANGED <<tabs, view>>

\* The goroutine of an initAWSClient command runs: aws.NewClient reads the
\* region of the shared config now, and returns a client or an error.  The
\* read is not synchronised with the write of case "c": it sees the region
\* from before or from after that write, as this step comes before or after
\* the key step.
RunInit ==
    /\ status = "running"
    /\ \E c \in cmds :
          /\ c.kind = "init"
          /\ cmds' = cmds \ {c}
          /\ \E ok \in BOOLEAN :
                msgs' = msgs \cup
                    { IF ok THEN ClientMsg(config.Region, c.id, c.origin)
                      ELSE instancesLoadedMsg(<<>>, InitErr, c.id, c.origin, "init") }
    /\ UNCHANGED <<m, config, status, nextId, edits, keylog, entry, expected,
                   tabs, view>>

\* The runtime receives msg, the result of a finished command, and Update
\* handles it.
Handled(msg) ==
    /\ Handle(msg, msg.id, msg.origin)
    /\ msgs' = msgs \ {msg}

\* The runtime receives the result of a finished initAWSClient command.
Deliver ==
    /\ status = "running"
    /\ \E msg \in msgs : Handled(msg)
    /\ UNCHANGED <<tabs, view>>

\* The instancesLoadedMsg a loadEC2Instances command may produce.
ListResults(c) ==
    { instancesLoadedMsg(res, Nil, c.id, c.origin, "list") : res \in Results }
    \cup { instancesLoadedMsg(<<>>, ListErr, c.id, c.origin, "list") }

\* The goroutine of a loadEC2Instances command runs and Update handles its
\* instancesLoadedMsg.  ListInstances is called on the awsClient of the copy
\* of the model the command is bound to and reads nothing else, so its
\* outcome is drawn when the message is handled.  A nil awsClient is a nil
\* pointer dereference in the goroutine, which ends the process.
ListDone ==
    /\ status = "running"
    /\ \E c \in cmds :
          /\ c.kind = "list"
          /\ IF c.client = Nil
             THEN /\ status' = "panicked"
                  /\ cmds' = cmds \ {c}
                  /\ UNCHANGED <<m, config, msgs, nextId, edits, keylog, entry,
                                 expected>>
             ELSE \E msg \in ListResults(c) : Handled(msg)
    /\ UNCHANGED <<tabs, view>>

\* The user requests loads and enters and leaves the filter editor, without
\* typing into it.
Next ==
    \/ PressKey(NavKeys, EditKeys, {})
    \/ Resize
    \/ RunInit
    \/ Deliver
    \/ ListDone

Spec == Init /\ [][Next]_vars

\* The goroutine of every command runs and the runtime hands every result
\* to Update; the user presses keys or not.
SpecLive ==
    /\ Init
    /\ [][Next]_vars
    /\ WF_vars(RunInit)
    /\ WF_vars(Deliver)
    /\ WF_vars(ListDone)

\* The same machine with the user typing the words of the filter example and
\* requesting no load by hand.
InitEdit == Init /\ config.Region = RegionList[3]

NextEdit ==
    \/ PressKey(EditNavKeys, EditKeys, EditWords)
    \/ Resize
    \/ RunInit
    \/ Deliver
    \/ ListDone

SpecEdit == InitEdit /\ [][NextEdit]_vars

\* The same machine with the user moving between the screens: the presses of
\* tab are recorded.
NextNav ==
    \/ PressTab
    \/ PressKey(TabNavKeys, EditKeys, {})
    \/ Resize
    \/ RunInit
    \/ Deliver
    \/ ListDone

SpecNav == InitEdit /\ [][NextNav]_vars

\* The Compute screen after a load has succeeded and a filter has been
\* committed: the instances ListInstances returned and the text typed.
InitFilter ==
    /\ \E instances \in InstLists(MaxInstances), filter \in Filters :
          /\ m = [initialModel EXCEPT !.awsClient = RegionList[1],
                                      !.loading = FALSE,
                                      !.ec2Instances = instances,
                                      !.filter = filter,
                                      !.filterInput.value = filter]
          /\ edits = IF filter = <<>> THEN 0 ELSE 1
          /\ keylog = filter
          /\ expected = [loading |-> FALSE, err |-> Nil, instances |-> instances]
    /\ config = [Region |-> RegionList[1], Regions |-> RegionList]
    /\ cmds = {}
    /\ msgs = {}
    /\ status = "running"
    /\ nextId = 2
    /\ entry = [filter |-> <<>>, value |-> <<>>]
    /\ tabs = <<>>
    /\ view = NoView

\* The runtime calls View, which shows renderEC2 on the Compute screen.
Render ==
    /\ status = "running"
    /\ m.currentScreen = ec2Screen
    /\ view' = renderEC2(m)
    /\ UNCHANGED <<m, config, cmds, msgs, status, nextId, edits, keylog, entry,
                   expected, tabs>>

NextFilter == Render

SpecFilter == InitFilter /\ [][NextFilter]_vars

----------------------------------------------------------------------------
(* Claims. *)

\* The instancesLoadedMsg the runtime may hand to Update in this state.
Completions ==
    { msg \in msgs : msg.type = "loaded" }
    \cup UNION { ListResults(c) : c \in { d \in cmds : d.kind = "list" /\ d.client # Nil } }

\* C1: whenever the load status is Loading and Update handles a successful
\* load-completed message, the resulting state is Ready (not loading, no
\* error stored) with the instances the message carries.
C1_LoadOkGivesReady ==
    [][\A msg \in Completions :
          (LoadStatus(m) = "Loading" /\ msg.err = Nil /\ Handled(msg))
          => /\ LoadStatus(m') = "Ready"
             /\ ~m'.loading
             /\ m'.err = Nil
             /\ m'.ec2Instances = msg.instances]_vars

\* C2: whenever the load status is Loading and Update handles an error
\* completion (client construction or listing failed), the resulting state is
\* Failed with exactly that error, and the instances are those from before.
C2_LoadErrorGivesFailed ==
    [][\A msg \in Completions :
          (LoadStatus(m) = "Loading" /\ msg.err # Nil /\ Handled(msg))
          => /\ LoadStatus(m') = "Failed"
             /\ m'.err = msg.err
             /\ m'.ec2Instances = m.ec2Instances]_vars

\* No command is waiting to run and no result is waiting to be handled.
Quiescent == cmds = {} /\ msgs = {}

\* C3: load results are applied last-writer-wins: once every load issued
\* (startup's and those of r or c) has completed and been handled, loading,
\* the error and the instances are those the completions determine when
\* applied in the order they arrived.
C3_LastWriterWins ==
    (status = "running" /\ Quiescent /\ nextId > 2 /\ ~expected.loading)
    => /\ m.loading = expected.loading
       /\ m.err = expected.err
       /\ m.ec2Instances = expected.instances

\* C4: a key c that selects a new region sets loading, and when the client
\* re-initialisation it started completes with a client, exactly one
\* instance-list request is issued for it.
C4_RegionChangeLoadsOnce ==
    [][/\ (~m.filtering /\ KeyStep("c") /\ config'.Region # config.Region)
          => LoadStatus(m') = "Loading"
       /\ \A msg \in msgs :
            (msg.type = "client" /\ msg.origin = "c" /\ Handled(msg))
            => Cardinality({ c \in cmds' \ cmds :
                               c.kind = "list" /\ c.id = msg.id }) = 1]_vars

\* C5: no process-terminating fault: no instance-list request is ever issued
\* or run without a constructed client handle.
C5_NoListWithoutClient ==
    /\ status # "panicked"
    /\ \A c \in cmds : c.kind = "list" => c.client # Nil

\* C6 as stated: from any state not editing the filter, f, the runes of
\* "Env=prod" and enter give filter = "Env=prod" and leave the editor.
C6_TypedTextCommitted ==
    [][(m.filtering /\ keylog = EnvProd /\ KeyStep("enter"))
       => (m'.filter = EnvProd /\ ~m'.filtering)]_vars

\* C6, amended: from any state not editing the filter whose input buffer is
\* empty, f, the runes of "Env=prod" and enter give filter = "Env=prod" and
\* leave the editor.
C6_TypedTextCommittedFromEmpty ==
    [][(m.filtering /\ entry.value = <<>> /\ keylog = EnvProd /\ KeyStep("enter"))
       => (m'.filter = EnvProd /\ ~m'.filtering)]_vars

\* "Env=prod" was typed into an empty buffer and committed.
C6_Witness ==
    /\ ~m.filtering
    /\ entry.value = <<>>
    /\ keylog = EnvProd
    /\ m.filter = EnvProd

\* C7: f, any runes, then esc leaves the committed filter as it was before f
\* and leaves the editor.
C7_EscKeepsFilter ==
    [][(m.filtering /\ KeyStep("esc"))
       => (m'.filter = entry.filter /\ ~m'.filtering)]_vars

\* Runes were typed over a committed, non-empty filter and discarded by esc.
C7_Witness ==
    /\ ~m.filtering
    /\ keylog # <<>>
    /\ m.filter # <<>>
    /\ m.filter = entry.filter
    /\ m.filterInput.value # m.filter

C9_FilterOnlyOnCompute == m.filtering => m.currentScreen = ec2Screen

\* C10: c pressed while not editing selects
\* regions[(index_of(current) + 1) mod len(regions)], sets loading and issues
\* one client construction; when the current region is not in the list (or
\* the list is empty) it changes nothing and issues nothing.
C10_RegionCycles ==
    [][(~m.filtering /\ KeyStep("c"))
       => LET regions == config.Regions
              found == { i \in 0..(Len(regions) - 1) : regions[i + 1] = config.Region }
          IN IF found # {}
             THEN LET index == CHOOSE i \in found : \A j \in found : i <= j IN
                  /\ config'.Region = regions[((index + 1) % Len(regions)) + 1]
                  /\ config'.Regions = regions
                  /\ LoadStatus(m') = "Loading"
                  /\ \E c \in cmds' : /\ c.kind = "init"
                                      /\ c \notin cmds
                                      /\ cmds' = cmds \cup {c}
             ELSE /\ config' = config
                  /\ m' = m
                  /\ cmds' = cmds
                  /\ msgs' = msgs]_vars

\* The specification's example: c pressed at the last region "eu-west-1" of
\* the list selected the first, "us-east-1", and started a client
\* construction.
C10_Witness ==
    /\ config.Regions = RegionList
    /\ config.Region = "us-east-1"
    /\ m.loading
    /\ \E c \in cmds : c.kind = "init" /\ c.origin = "c"

\* C11: r pressed while not editing sets loading and issues one instance-list
\* request exactly when the screen is Compute; on the other two screens
\* Update returns the model as it is and no command, so nothing changes.
C11_RefreshOnlyOnCompute ==
    /\ [](~m.filtering /\ m.currentScreen # ec2Screen
            => Update(m, config, KeyMsg("r")) = Ret(m, config.Region, "none"))
    /\ [][(~m.filtering /\ KeyStep("r"))
           => /\ m.currentScreen = ec2Screen
              /\ m' = [m EXCEPT !.loading = TRUE]
              /\ LoadStatus(m') = "Loading"
              /\ config' = config
              /\ msgs' = msgs
              /\ status' = status
              /\ \E c \in cmds' : /\ c.kind = "list"
                                  /\ c \notin cmds
                                  /\ cmds' = cmds \cup {c}]_vars

\* r issued a list request on the Compute screen, which is still in flight,
\* and the user has moved to the ObjectStorage screen, where r does nothing.
C11_Witness ==
    /\ ~m.filtering
    /\ m.currentScreen = s3Screen
    /\ m.loading
    /\ \E c \in cmds : c.kind = "list" /\ c.origin = "r"
    /\ Update(m, config, KeyMsg("r")).cmd = "none"

\* C12: tab pressed while navigating advances Compute to ObjectStorage to
\* Kubernetes to Compute and changes nothing but the screen, and the third
\* press in a row returns to the screen the first was pressed on.
C12_TabCycles ==
    [][(~m.filtering /\ KeyStep("tab"))
       => /\ m' = [m EXCEPT !.currentScreen =
                      CASE m.currentScreen = ec2Screen -> s3Screen
                        [] m.currentScreen = s3Screen -> eksScreen
                        [] m.currentScreen = eksScreen -> ec2Screen]
          /\ config' = config
          /\ cmds' = cmds
          /\ msgs' = msgs
          /\ status' = status
          /\ Len(tabs') = 3 => m'.currentScreen = tabs'[1]]_vars

\* tab was pressed three times in a row starting on the Kubernetes screen,
\* through Compute and ObjectStorage, and the screen is Kubernetes again.
C12_Witness ==
    /\ ~m.filtering
    /\ tabs = <<eksScreen, ec2Screen, s3Screen>>
    /\ m.currentScreen = eksScreen

\* Two runes are the same letter in upper or lower case, or the same rune.
SameFold(a, b) ==
    \/ a = b
    \/ \E i \in 1..Len(UpperRunes) : {a, b} = {UpperRunes[i], LowerRunes[i]}

\* sub occurs in str when case is ignored.
ContainsFold(str, sub) ==
    \E i \in 0..(Len(str) - Len(sub)) :
        \A j \in 1..Len(sub) : SameFold(str[i + j], sub[j])

\* The instance list has been shown as a table or as "No instances found".
Shown == view.status \in {"table", "empty"}

\* C13: for a filter text with "=", K the text before the first "=" and V
\* all after it, the instances shown are exactly those with a tag whose key
\* is K (case-sensitive) and whose value contains V ignoring case, in input
\* order; Env=prod over {Env: Prod}, {env: dev} shows the first only.
C13_TagFilter ==
    (Shown /\ \E p \in 1..Len(m.filter) : m.filter[p] = "=")
    => LET first == CHOOSE p \in 1..Len(m.filter) :
                       /\ m.filter[p] = "="
                       /\ \A q \in 1..(p - 1) : m.filter[q] # "="
           K == SubSeq(m.filter, 1, first - 1)
           V == SubSeq(m.filter, first + 1, Len(m.filter))
           Keeps(inst) == \E t \in 1..Len(inst.Tags) :
                             /\ inst.Tags[t].Key = K
                             /\ ContainsFold(inst.Tags[t].Value, V)
       IN /\ view.rows = SelectSeq(m.ec2Instances, Keeps)
          /\ (m.filter = EnvProd /\ m.ec2Instances = <<ProdInst, DevInst>>)
             => view.rows = <<ProdInst>>

\* The specification's example has been shown: Env=prod over the instances
\* tagged {Env: Prod} and {env: dev} shows the first.
C13_Witness ==
    /\ m.filter = EnvProd
    /\ m.ec2Instances = <<ProdInst, DevInst>>
    /\ view = [status |-> "table", rows |-> <<ProdInst>>]

\* C14: for a non-empty filter text without "=", the instances shown are
\* exactly those whose state contains the text ignoring case, in input
\* order, whatever their ids and tags.
C14_StateFilter ==
    (Shown /\ m.filter # <<>> /\ \A p \in 1..Len(m.filter) : m.filter[p] # "=")
    => LET Keeps(inst) == ContainsFold(inst.State, m.filter)
       IN view.rows = SelectSeq(m.ec2Instances, Keeps)

\* The specification's example has been shown: filter run keeps the instance
\* in state Running and not the one whose name tag reads run.
C14_Witness ==
    /\ m.filter = Run
    /\ m.ec2Instances = <<NameInst, ProdInst>>
    /\ view = [status |-> "table", rows |-> <<ProdInst>>]

\* sub is obtained from seq by deleting elements.
RECURSIVE IsSubsequence(_, _)
IsSubsequence(sub, seq) ==
    IF sub = <<>> THEN TRUE
    ELSE IF seq = <<>> THEN FALSE
    ELSE IF Head(sub) = Head(seq) THEN IsSubsequence(Tail(sub), Tail(seq))
    ELSE IsSubsequence(sub, Tail(seq))

\* The number of positions of seq that hold x.
Occurrences(seq, x) == Cardinality({ i \in 1..Len(seq) : seq[i] = x })

\* C15: for every instance list and filter text the instances shown are a
\* subsequence of the input: no longer, in the same relative order, and
\* with no instance more often than the input has it.
C15_FilterIsSubsequence ==
    Shown
    => /\ Len(view.rows) <= Len(m.ec2Instances)
       /\ IsSubsequence(view.rows, m.ec2Instances)
       /\ \A inst \in FilterInsts :
             Occurrences(view.rows, inst) <= Occurrences(m.ec2Instances, inst)

\* An instance with two tags that match Env=prod has been shown once, after
\* the instance before it in the input.
C15_Witness ==
    /\ m.filter = EnvProd
    /\ m.ec2Instances = <<ProdInst, TwoTagInst>>
    /\ view = [status |-> "table", rows |-> <<ProdInst, TwoTagInst>>]

\* C16: with the empty filter text the instances shown are the input list,
\* same elements in the same order.
C16_EmptyFilterIsIdentity ==
    (Shown /\ m.filter = <<>>) => view.rows = m.ec2Instances

\* A list of two instances has been shown with the empty filter.
C16_Witness ==
    /\ m.filter = <<>>
    /\ m.ec2Instances = <<DevInst, ProdInst>>
    /\ view = [status |-> "table", rows |-> <<DevInst, ProdInst>>]

\* C17: a client-construction task works on a snapshot of the configuration:
\* the client it constructs is for the region that was selected when the
\* task was issued, whatever c has selected since.
C17_InitUsesIssuedRegion ==
    [][\A c \in cmds :
          (c.kind = "init" /\ c \notin cmds')
          => \A msg \in msgs' \ msgs :
                (msg.type = "client" /\ msg.id = c.id) => msg.client = c.issued]_vars

\* C18: across every step the committed filter changes only when Update
\* handles key enter while the filter is edited, and it becomes the content
\* of the input buffer; no other key, completion or resize changes it.
C18_FilterChangesOnlyOnEnter ==
    [][m'.filter # m.filter
       => /\ m.filtering
          /\ KeyStep("enter")
          /\ m'.filter = m.filterInput.value]_vars

\* A second edit has replaced the committed filter Env=prod by the content
\* of the input buffer.
C18_Witness ==
    /\ ~m.filtering
    /\ entry.filter = EnvProd
    /\ m.filter # EnvProd
    /\ m.filter = m.filterInput.value

\* Update handles a key the user pressed.
UserActs == \E k \in NavKeys \cup EditKeys : KeyStep(k)

\* C19: when every issued task completes and its result is handed to
\* Update, and the user eventually presses no more keys, a load status of
\* Loading ends (or the program has ended): no completion is lost because
\* the filter was being edited when it arrived.
C19_LoadingEnds ==
    <>[][~UserActs]_vars
    => (LoadStatus(m) = "Loading"
          ~> (LoadStatus(m) # "Loading" \/ status # "running"))

\* C20: in every quiescent state (no task in flight, no result waiting) that
\* holds a client, the region of the client, which the header shows and the
\* next r lists from, is the region selected in the configuration.
C20_ClientRegionIsSelected ==
    (status = "running" /\ Quiescent /\ m.awsClient # Nil)
    => m.awsClient = config.Region

====
